---------------------------- MODULE Spec2Model ----------------------------
(***************************************************************************)
(* A model of svc-mcp-linear: the MCP tool handlers, the GraphQL executor  *)
(* (execute_query), the credential resolvers (get_bearer_token,            *)
(* get_linear_token) and the variable sanitizer (sanitize_variables).      *)
(*                                                                         *)
(* Python values are tagged records (JNull, JBool, JInt, JStr, JList,      *)
(* JObj).  A Python string is a sequence of chunks; where the code works   *)
(* on characters (the Authorization header) every chunk is one character.  *)
(* The result of running a piece of code is an outcome: Ret(value) or      *)
(* Raise(exception class, message, errors).                                *)
(***************************************************************************)
EXTENDS Integers, Sequences, FiniteSets, TLC

VARIABLES
  pc,      \* per invocation: "idle", "awaiting" (suspended in client.post), "done"
  call,    \* per invocation: what was called, with its arguments and ambient context
  sent,    \* per invocation: the requests it handed to client.post, in order
  resp,    \* per invocation: the upstream response client.post finished with
  parsed,  \* per invocation: response.json() was called
  ret      \* per invocation: how the call ended (returned value or exception)

vars == <<pc, call, sent, resp, parsed, ret>>

-----------------------------------------------------------------------------
(* Bounds of the model.                                                    *)

\* longest bearer value (in characters) enumerated for an inbound header
MaxTokenLen == 2
\* longest upstream "errors" array enumerated
MaxErrors == 2
\* longest upstream "nodes" collection enumerated
MaxNodes == 2

-----------------------------------------------------------------------------
(* Python / JSON values.                                                   *)

JNull == [t |-> "null"]
JBool(b) == [t |-> "bool", v |-> b]
JInt(n) == [t |-> "int", v |-> n]
JStr(s) == [t |-> "str", v |-> s]
JList(s) == [t |-> "list", v |-> s]
JObj(f) == [t |-> "obj", v |-> f]

EmptyMap == [k \in {} |-> JNull]
EmptyObj == JObj(EmptyMap)
EmptyList == JList(<<>>)

\* the keys of a mapping, in the order the model lists the entries of a dict
KeyOrder ==
  << "data", "errors", "variables", "error", "isError", "count", "updates",
     "message", "code", "id", "name", "title", "body", "success", "issue",
     "project", "projectUpdate", "team", "teams", "states", "nodes",
     "viewer", "assignedIssues", "issues", "projects", "projectUpdates",
     "issueCreate", "issueUpdate", "projectCreate", "projectUpdateCreate",
     "teamId", "description", "priority", "stateId", "assigneeId",
     "projectId", "identifier", "query", "first", "teamIds", "state",
     "health", "a", "b" >>

\* outcomes of running code
Ret(v) == [k |-> "return", v |-> v]
Raise(exc, msg, errs) == [k |-> "raise", exc |-> exc, message |-> msg, errors |-> errs]
IsRet(o) == o.k = "return"
IsRaise(o) == o.k = "raise"

\* ValueError and its subclasses (json.JSONDecodeError is one)
ValueErrorClasses == {"ValueError", "JSONDecodeError"}

\* bool(v): Python truthiness
Truthy(v) ==
  CASE v.t = "null" -> FALSE
    [] v.t = "bool" -> v.v
    [] v.t = "int" -> v.v # 0
    [] v.t = "str" -> Len(v.v) > 0
    [] v.t = "list" -> Len(v.v) > 0
    [] v.t = "obj" -> DOMAIN v.v # {}

\* x.get(key, default): an outcome.  Only a dict has .get; on None, a str, a
\* list, an int or a bool the attribute lookup raises AttributeError.
PyGet(x, key, default) ==
  IF x.t = "obj"
    THEN Ret(IF key \in DOMAIN x.v THEN x.v[key] ELSE default)
    ELSE Raise("AttributeError", <<"object has no attribute 'get'">>, JNull)

\* x[key] on a dict: KeyError when the key is missing; None[key] is a
\* TypeError.  (The code only subscripts with a string key.)
PyItem(x, key) ==
  IF x.t = "obj"
    THEN IF key \in DOMAIN x.v THEN Ret(x.v[key])
         ELSE Raise("KeyError", <<"'", key, "'">>, JNull)
    ELSE Raise("TypeError", <<"indices must be integers or object is not subscriptable">>, JNull)

PyLenBug(x) ==
  CASE x.t \in {"str", "list"} -> Ret(JInt(Cardinality({x.v[n] : n \in 1..Len(x.v)})))
    [] x.t = "obj" -> Ret(JInt(Cardinality(DOMAIN x.v)))
    [] OTHER -> Raise("TypeError", <<"object has no len()">>, JNull)

\* len(x): defined for str, list and dict; TypeError otherwise
PyLen(x) ==
  CASE x.t \in {"str", "list"} -> Ret(JInt(Len(x.v)))
    [] x.t = "obj" -> Ret(JInt(Cardinality(DOMAIN x.v)))
    [] OTHER -> Raise("TypeError", <<"object has no len()">>, JNull)

\* the decimal digits of a natural number
RECURSIVE DigitsOf(_)
DigitsOf(n) ==
  IF n < 10 THEN << <<"0","1","2","3","4","5","6","7","8","9">>[n + 1] >>
  ELSE DigitsOf(n \div 10) \o << <<"0","1","2","3","4","5","6","7","8","9">>[(n % 10) + 1] >>

\* str(n) for an int
IntStr(n) == IF n < 0 THEN <<"-">> \o DigitsOf(0 - n) ELSE DigitsOf(n)

\* sep.join(parts) for a sequence of strings
RECURSIVE Join(_, _)
Join(sep, parts) ==
  IF Len(parts) = 0 THEN <<>>
  ELSE IF Len(parts) = 1 THEN parts[1]
  ELSE parts[1] \o sep \o Join(sep, Tail(parts))

\* the keys of mapping f in dict order
KeysInOrder(f) == SelectSeq(KeyOrder, LAMBDA key : key \in DOMAIN f)

\* str(v) / repr(v) of a Python value, nested values by repr
RECURSIVE PyRepr(_)
PyRepr(v) ==
  CASE v.t = "null" -> <<"None">>
    [] v.t = "bool" -> IF v.v THEN <<"True">> ELSE <<"False">>
    [] v.t = "int" -> IntStr(v.v)
    [] v.t = "str" -> <<"'">> \o v.v \o <<"'">>
    [] v.t = "list" ->
         <<"[">> \o Join(<<", ">>, [i \in 1..Len(v.v) |-> PyRepr(v.v[i])]) \o <<"]">>
    [] v.t = "obj" ->
         <<"{">> \o
         Join(<<", ">>,
              [i \in 1..Len(KeysInOrder(v.v)) |->
                 <<"'", KeysInOrder(v.v)[i], "'", ": ">>
                 \o PyRepr(v.v[KeysInOrder(v.v)[i]])])
         \o <<"}">>

\* str(v): a str is itself, anything else its repr
PyStr(v) == IF v.t = "str" THEN v.v ELSE PyRepr(v)

\* text `part` occurs in text `whole` as a contiguous run of chunks
Contains(whole, part) ==
  \E i \in 0..(Len(whole) - Len(part)) :
    \A j \in 1..Len(part) : whole[i + j] = part[j]

\* run F on the value of outcome o, unless o raised (then the exception
\* propagates)
Then(o, F(_)) == IF IsRaise(o) THEN o ELSE F(o.v)

\* key in x: dict key membership, list element membership; None and numbers
\* are not iterable (TypeError).  No str container occurs in the model.
PyIn(key, x) ==
  CASE x.t = "obj" -> Ret(JBool(key \in DOMAIN x.v))
    [] x.t = "list" -> Ret(JBool(\E i \in 1..Len(x.v) : x.v[i] = JStr(<<key>>)))
    [] x.t = "str" -> Ret(JBool(Contains(x.v, <<key>>)))
    [] OTHER -> Raise("TypeError", <<"argument is not iterable">>, JNull)

\* the elements a for-loop over x visits: a list's elements, a dict's keys,
\* a str's characters; None and numbers are not iterable (TypeError)
PyIter(x) ==
  CASE x.t = "list" -> Ret(x.v)
    [] x.t = "obj" ->
         Ret([i \in 1..Len(KeysInOrder(x.v)) |-> JStr(<<KeysInOrder(x.v)[i]>>)])
    [] x.t = "str" -> Ret([i \in 1..Len(x.v) |-> JStr(<<x.v[i]>>)])
    [] OTHER -> Raise("TypeError", <<"object is not iterable">>, JNull)

-----------------------------------------------------------------------------
(* src/src/client.py                                                       *)

LINEAR_API_URL == <<"https://api.linear.app/graphql">>

\* the request timeout in seconds
TIMEOUT == 30

\* the only status execute_query accepts
HTTP_OK == 200

\* LinearClientError(message, errors): self.errors = errors or []
LinearClientError(message, errors) ==
  Raise("LinearClientError", message, IF Truthy(errors) THEN errors ELSE EmptyList)

UpperCase ==
  << "A", "B", "C", "D", "E", "F", "G", "H", "I", "J", "K", "L", "M",
     "N", "O", "P", "Q", "R", "S", "T", "U", "V", "W", "X", "Y", "Z" >>
LowerCase ==
  << "a", "b", "c", "d", "e", "f", "g", "h", "i", "j", "k", "l", "m",
     "n", "o", "p", "q", "r", "s", "t", "u", "v", "w", "x", "y", "z" >>

\* s.lower(), character by character
StrLower(s) ==
  [i \in 1..Len(s) |->
     IF \E n \in 1..Len(UpperCase) : UpperCase[n] = s[i]
       THEN LowerCase[CHOOSE n \in 1..Len(UpperCase) : UpperCase[n] = s[i]]
       ELSE s[i]]

\* s.split(" ", 1): cut at the first space, if there is one
RECURSIVE SplitOnce(_, _)
SplitOnce(head, rest) ==
  IF Len(rest) = 0 THEN << head >>
  ELSE IF rest[1] = " " THEN << head, Tail(rest) >>
  ELSE SplitOnce(Append(head, rest[1]), Tail(rest))

InvalidFormatBug(parts) == Len(parts) # 2 \/ parts[1] # <<"b", "e", "a", "r", "e", "r">>

\* the test of client.py line 45
InvalidFormat(parts) ==
  Len(parts) # 2 \/ StrLower(parts[1]) # <<"b", "e", "a", "r", "e", "r">>

get_bearer_tokenBug(request) ==
  LET auth_header ==
        IF request.active /\ "authorization" \in DOMAIN request.headers
          THEN request.headers["authorization"] ELSE <<>>
      parts == SplitOnce(<<>>, auth_header)
  IN IF Len(auth_header) = 0
       THEN Raise("ValueError", <<"Missing Authorization header">>, JNull)
     ELSE IF InvalidFormat(parts)
       THEN Raise("ValueError",
                  <<"Invalid Authorization header format",
                    " - expected 'Bearer <token>'">>, JNull)
     ELSE Ret(JStr(parts[2]))

\* get_bearer_token(): request is the ambient inbound request,
\* [active |-> FALSE] when get_http_request() raises RuntimeError
get_bearer_token(request) ==
  IF ~request.active
    THEN Raise("ValueError", <<"No active HTTP request", " - cannot extract token">>, JNull)
  ELSE
    LET auth_header ==
          IF "authorization" \in DOMAIN request.headers
            THEN request.headers["authorization"] ELSE <<>>
        parts == SplitOnce(<<>>, auth_header)
    IN IF Len(auth_header) = 0
         THEN Raise("ValueError", <<"Missing Authorization header">>, JNull)
       ELSE IF InvalidFormat(parts)
         THEN Raise("ValueError",
                    <<"Invalid Authorization header format",
                      " - expected 'Bearer <token>'">>, JNull)
       ELSE Ret(JStr(parts[2]))

KeptBug(v) == Truthy(v)

\* the filter of the comprehension in sanitize_variables
Kept(v) == v # JNull

sanitize_variablesBug(variables) == variables

\* sanitize_variables(variables): variables is a dict
sanitize_variables(variables) ==
  JObj([key \in {x \in DOMAIN variables.v : Kept(variables.v[x])} |-> variables.v[key]])

execute_query_requestBug(query, variables, token, request) ==
  Then(IF token = JNull \/ request.active THEN get_bearer_token(request) ELSE Ret(token),
       LAMBDA tok :
         Ret([url |-> LINEAR_API_URL,
              headers |-> [Authorization |-> <<"Bearer ">> \o PyStr(tok),
                           ContentType |-> <<"application/json">>],
              json |-> JObj(IF Truthy(variables)
                              THEN "query" :> query @@
                                   "variables" :> sanitize_variables(variables)
                              ELSE "query" :> query),
              timeout |-> TIMEOUT]))

sanitize_variables_argumentBug(variables) == sanitize_variables(variables)

\* the caller's mapping after sanitize_variables(variables) returned: the
\* dict comprehension of line 62 builds a new dict and only reads variables
sanitize_variables_argument(variables) == variables

\* the caller's variables after execute_query got past line 94: they are
\* only tested (line 93) and handed to sanitize_variables
execute_query_argument(variables) ==
  IF Truthy(variables) THEN sanitize_variables_argument(variables) ELSE variables

\* lines 84-94 of execute_query: the credential, the headers and the payload.
\* query is a str, variables a dict or None, token a str or None.  Returns
\* the request handed to client.post, or raises what get_bearer_token raised.
execute_query_request(query, variables, token, request) ==
  Then(IF token = JNull THEN get_bearer_token(request) ELSE Ret(token),
       LAMBDA tok :
         Ret([url |-> LINEAR_API_URL,
              headers |-> [Authorization |-> <<"Bearer ">> \o PyStr(tok),
                           ContentType |-> <<"application/json">>],
              json |-> JObj(IF Truthy(variables)
                              THEN "query" :> query @@
                                   "variables" :> sanitize_variables(variables)
                              ELSE "query" :> query),
              timeout |-> TIMEOUT]))

\* the value of response.json() when the body is not JSON
NotJson == [t |-> "invalid"]

BadStatusBug(status_code) == status_code < HTTP_OK \/ status_code >= 300

\* the test of client.py line 105
BadStatus(status_code) == status_code # HTTP_OK

\* the test of client.py line 113
HasErrors(result) == PyIn("errors", result)

\* e.get("message", str(e)) for one entry of the errors array (line 114)
ErrorMessage(e) == PyGet(e, "message", JStr(PyStr(e)))

\* the list comprehension of line 114 over the entries es: the list of
\* messages, or the first exception an entry raises
RECURSIVE ErrorMessages(_)
ErrorMessages(es) ==
  IF Len(es) = 0 THEN Ret(<<>>)
  ELSE Then(ErrorMessage(es[1]),
            LAMBDA m : Then(ErrorMessages(Tail(es)), LAMBDA ms : Ret(<<m>> \o ms)))

\* '; '.join(error_messages): every item must be a str (TypeError otherwise)
JoinMessagesBug(ms) ==
  IF \E i \in 1..Len(ms) : ms[i].t # "str"
    THEN Raise("TypeError", <<"sequence item: expected str instance">>, JNull)
    ELSE Ret(<<"GraphQL errors: ">> \o Join(<<", ">>, [i \in 1..Len(ms) |-> ms[i].v]))

\* f"GraphQL errors: {'; '.join(error_messages)}" (line 116)
JoinMessages(ms) ==
  IF \E i \in 1..Len(ms) : ms[i].t # "str"
    THEN Raise("TypeError", <<"sequence item: expected str instance">>, JNull)
    ELSE Ret(<<"GraphQL errors: ">> \o Join(<<"; ">>, [i \in 1..Len(ms) |-> ms[i].v]))

\* lines 113-120 of execute_query, on the parsed body
execute_query_result(result) ==
  Then(HasErrors(result),
       LAMBDA has :
         IF has.v
           THEN Then(PyItem(result, "errors"),
                     LAMBDA errors :
                       Then(PyIter(errors),
                            LAMBDA es :
                              Then(ErrorMessages(es),
                                   LAMBDA ms :
                                     Then(JoinMessages(ms),
                                          LAMBDA text : LinearClientError(text, errors)))))
           ELSE PyGet(result, "data", EmptyObj))

HttpErrorMessageBug(status_code, text) ==
  <<"Linear API returned HTTP ">> \o IntStr(status_code)

\* f"Linear API returned HTTP {response.status_code}: {response.text}" (line 107)
HttpErrorMessage(status_code, text) ==
  <<"Linear API returned HTTP ">> \o IntStr(status_code) \o <<": ">> \o text

execute_query_responseBug(response) ==
  IF response.kind = "timeout"
    THEN [o |-> Raise("TimeoutException", <<"timed out">>, JNull), parsed |-> FALSE]
  ELSE IF response.json # NotJson /\ response.json.t = "obj"
          /\ "errors" \in DOMAIN response.json.v
    THEN [o |-> execute_query_result(response.json), parsed |-> TRUE]
  ELSE IF BadStatus(response.status_code)
    THEN [o |-> LinearClientError(HttpErrorMessage(response.status_code, response.text),
                                  JNull),
          parsed |-> FALSE]
  ELSE IF response.json = NotJson
    THEN [o |-> Raise("JSONDecodeError", <<"Expecting value">>, JNull), parsed |-> TRUE]
  ELSE [o |-> execute_query_result(response.json), parsed |-> TRUE]

\* lines 96-120 of execute_query, once client.post has finished with response:
\* [o |-> the outcome of execute_query, parsed |-> response.json() was called]
execute_query_response(response) ==
  IF response.kind = "timeout"
    THEN [o |-> Raise("TimeoutException", <<"timed out">>, JNull), parsed |-> FALSE]
  ELSE IF BadStatus(response.status_code)
    THEN [o |-> LinearClientError(HttpErrorMessage(response.status_code, response.text),
                                  JNull),
          parsed |-> FALSE]
  ELSE IF response.json = NotJson
    THEN [o |-> Raise("JSONDecodeError", <<"Expecting value">>, JNull), parsed |-> TRUE]
  ELSE [o |-> execute_query_result(response.json), parsed |-> TRUE]

-----------------------------------------------------------------------------
(* src/src/auth.py                                                         *)

auth_LINEAR_API_URL == <<"https://api.linear.app">>

get_linear_tokenBug(access_ctx) ==
  IF ~access_ctx.present
    THEN Raise("ValueError",
               <<"No authentication context", " - Keycard auth may not be configured">>,
               JNull)
    ELSE Ret(access_ctx.access[auth_LINEAR_API_URL].access_token)

\* get_linear_token(access_ctx): access_ctx is [present |-> FALSE] for None,
\* else [present |-> TRUE, errors |-> the broker's errors (empty when
\* has_errors() is false), access |-> resource -> [access_token |-> ...]]
get_linear_token(access_ctx) ==
  IF ~access_ctx.present
    THEN Raise("ValueError",
               <<"No authentication context", " - Keycard auth may not be configured">>,
               JNull)
  ELSE IF Truthy(access_ctx.errors)
    THEN Raise("ValueError",
               <<"Authentication errors: ">> \o PyStr(access_ctx.errors), JNull)
  ELSE Ret(access_ctx.access[auth_LINEAR_API_URL].access_token)

-----------------------------------------------------------------------------
(* The tool handlers: src/src/tools/issues.py, states.py, mutations.py     *)

\* the GraphQL documents, each a str named after its constant
MY_ISSUES_QUERY == JStr(<<"MY_ISSUES_QUERY">>)
ISSUE_QUERY == JStr(<<"ISSUE_QUERY">>)
SEARCH_ISSUES_QUERY == JStr(<<"SEARCH_ISSUES_QUERY">>)
LIST_PROJECTS_QUERY == JStr(<<"LIST_PROJECTS_QUERY">>)
LIST_PROJECTS_BY_TEAM_QUERY == JStr(<<"LIST_PROJECTS_BY_TEAM_QUERY">>)
LIST_PROJECT_UPDATES_QUERY == JStr(<<"LIST_PROJECT_UPDATES_QUERY">>)
TEAM_STATES_QUERY == JStr(<<"TEAM_STATES_QUERY">>)
ALL_TEAMS_STATES_QUERY == JStr(<<"ALL_TEAMS_STATES_QUERY">>)
CREATE_ISSUE_MUTATION == JStr(<<"CREATE_ISSUE_MUTATION">>)
UPDATE_ISSUE_MUTATION == JStr(<<"UPDATE_ISSUE_MUTATION">>)
UPDATE_STATUS_MUTATION == JStr(<<"UPDATE_STATUS_MUTATION">>)
CREATE_PROJECT_MUTATION == JStr(<<"CREATE_PROJECT_MUTATION">>)
CREATE_PROJECT_UPDATE_MUTATION == JStr(<<"CREATE_PROJECT_UPDATE_MUTATION">>)

FailureBug(error) == JObj("success" :> JBool(FALSE) @@ "error" :> JStr(error))

\* {"success": False, "error": error, "isError": True}
Failure(error) ==
  JObj("success" :> JBool(FALSE) @@ "error" :> JStr(error) @@ "isError" :> JBool(TRUE))

\* {"success": True, key: value}
Success(key, value) == JObj("success" :> JBool(TRUE) @@ key :> value)

handler_exceptBug(o) ==
  IF IsRaise(o) /\ o.exc = "LinearClientError"
    THEN Ret(Failure(<<"LinearClientError: ">> \o o.message))
  ELSE IF IsRaise(o) /\ o.exc \in ValueErrorClasses
    THEN Ret(Failure(<<"ValueError: ">> \o o.message))
  ELSE o

\* the except clauses every handler ends with: LinearClientError gives
\* e.message, ValueError (and its subclasses) str(e); anything else is not
\* caught and leaves the handler
handler_except(o) ==
  IF IsRaise(o) /\ o.exc = "LinearClientError" THEN Ret(Failure(o.message))
  ELSE IF IsRaise(o) /\ o.exc \in ValueErrorClasses THEN Ret(Failure(o.message))
  ELSE o

brokered_requestBug(c, query, variables) ==
  execute_query_request(query, variables,
                        IF IsRaise(get_linear_token(c.ctx))
                          THEN JStr(<<>>) ELSE get_linear_token(c.ctx).v,
                        c.request)

\* a brokered handler up to its await: the token from the access context,
\* then execute_query(query, variables, token=token)
brokered_request(c, query, variables) ==
  Then(get_linear_token(c.ctx),
       LAMBDA token : execute_query_request(query, variables, token, c.request))

\* a mutation handler up to its await: execute_query(query, variables)
header_request(c, query, variables) ==
  execute_query_request(query, variables, JNull, c.request)

\* x.get(k1, {}).get(k2, [])
PyGet2(x, k1, k2) ==
  Then(PyGet(x, k1, EmptyObj), LAMBDA y : PyGet(y, k2, EmptyList))

\* ---- my_issues (issues.py 134-146)
my_issues_request(c) == brokered_request(c, MY_ISSUES_QUERY, JNull)

my_issues_return(c, data) ==
  Then(PyGet(data, "viewer", EmptyObj),
       LAMBDA viewer :
         Then(PyGet2(viewer, "assignedIssues", "nodes"),
              LAMBDA issues :
                Then(PyLen(issues),
                     LAMBDA count :
                       Ret(JObj("success" :> JBool(TRUE) @@ "issues" :> issues
                                @@ "count" :> count)))))

\* ---- issue (issues.py 153-175)
issue_request(c) ==
  brokered_request(c, ISSUE_QUERY, JObj("identifier" :> c.args["identifier"]))

issue_returnBug(c, data) ==
  Then(PyGet(data, "issue", JNull), LAMBDA issue_data : Ret(Success("issue", issue_data)))

issue_return(c, data) ==
  Then(PyGet(data, "issue", JNull),
       LAMBDA issue_data :
         IF issue_data = JNull
           THEN Ret(Failure(<<"Issue ">> \o PyStr(c.args["identifier"]) \o <<" not found">>))
           ELSE Ret(Success("issue", issue_data)))

\* ---- search (issues.py 182-203)
search_request(c) ==
  brokered_request(c, SEARCH_ISSUES_QUERY, JObj("query" :> c.args["query"]))

search_return(c, data) ==
  Then(PyGet2(data, "issues", "nodes"),
       LAMBDA issues :
         Then(PyLen(issues),
              LAMBDA count :
                Ret(JObj("success" :> JBool(TRUE) @@ "query" :> c.args["query"]
                         @@ "issues" :> issues @@ "count" :> count))))

\* ---- list_projects (issues.py 210-231)
list_projects_request(c) ==
  IF Truthy(c.args["team_id"])
    THEN brokered_request(c, LIST_PROJECTS_BY_TEAM_QUERY,
                          JObj("teamId" :> c.args["team_id"]))
    ELSE brokered_request(c, LIST_PROJECTS_QUERY, JNull)

list_projects_return(c, data) ==
  Then(PyGet2(data, "projects", "nodes"),
       LAMBDA projects :
         Then(PyLen(projects),
              LAMBDA count :
                Ret(JObj("success" :> JBool(TRUE) @@ "projects" :> projects
                         @@ "count" :> count))))

\* ---- list_project_updates (issues.py 238-269)
list_project_updates_request(c) ==
  brokered_request(c, LIST_PROJECT_UPDATES_QUERY,
                   JObj("projectId" :> c.args["project_id"] @@ "first" :> c.args["limit"]))

list_project_updates_return(c, data) ==
  Then(PyGet(data, "project", JNull),
       LAMBDA project :
         IF project = JNull
           THEN Ret(Failure(<<"Project ">> \o PyStr(c.args["project_id"])
                            \o <<" not found">>))
           ELSE
             Then(PyGet2(project, "projectUpdates", "nodes"),
                  LAMBDA updates :
                    Then(PyGet(project, "id", JNull),
                         LAMBDA id :
                           Then(PyGet(project, "name", JNull),
                                LAMBDA name :
                                  Then(PyLen(updates),
                                       LAMBDA count :
                                         Ret(JObj("success" :> JBool(TRUE)
                                                  @@ "project" :> JObj("id" :> id @@ "name" :> name)
                                                  @@ "updates" :> updates
                                                  @@ "count" :> count)))))))

states_requestBug(c) ==
  IF c.args["team_id"] # JNull
    THEN brokered_request(c, TEAM_STATES_QUERY, JObj("teamId" :> c.args["team_id"]))
    ELSE brokered_request(c, ALL_TEAMS_STATES_QUERY, JNull)

\* ---- states (states.py 57-101)
states_request(c) ==
  IF Truthy(c.args["team_id"])
    THEN brokered_request(c, TEAM_STATES_QUERY, JObj("teamId" :> c.args["team_id"]))
    ELSE brokered_request(c, ALL_TEAMS_STATES_QUERY, JNull)

\* {"id": team["id"], "name": team["name"]} and
\* team.get("states", {}).get("nodes", []), in the order the code evaluates
\* them; F builds the result from the three values
TeamFields(team, F(_, _, _)) ==
  Then(PyItem(team, "id"),
       LAMBDA id :
         Then(PyItem(team, "name"),
              LAMBDA name :
                Then(PyGet2(team, "states", "nodes"),
                     LAMBDA nodes : F(id, name, nodes))))

TeamEntriesBug(ts) ==
  Ret([n \in 1..Len(ts) |->
         LET team == ts[Len(ts) + 1 - n] IN
           JObj("id" :> (IF team.t = "obj" /\ "id" \in DOMAIN team.v
                           THEN team.v["id"] ELSE JNull)
                @@ "name" :> (IF team.t = "obj" /\ "name" \in DOMAIN team.v
                                THEN team.v["name"] ELSE JNull)
                @@ "states" :> EmptyList)])

\* the list comprehension of states.py 89-96 over the teams ts
RECURSIVE TeamEntries(_)
TeamEntries(ts) ==
  IF Len(ts) = 0 THEN Ret(<<>>)
  ELSE Then(TeamFields(ts[1],
                       LAMBDA id, name, nodes :
                         Ret(JObj("id" :> id @@ "name" :> name @@ "states" :> nodes))),
            LAMBDA entry :
              Then(TeamEntries(Tail(ts)), LAMBDA rest : Ret(<<entry>> \o rest)))

states_return(c, data) ==
  IF Truthy(c.args["team_id"])
    THEN Then(PyGet(data, "team", JNull),
              LAMBDA team_data :
                IF team_data = JNull
                  THEN Ret(Failure(<<"Team ">> \o PyStr(c.args["team_id"])
                                   \o <<" not found">>))
                  ELSE TeamFields(team_data,
                                  LAMBDA id, name, nodes :
                                    Ret(JObj("success" :> JBool(TRUE)
                                             @@ "team" :> JObj("id" :> id @@ "name" :> name)
                                             @@ "states" :> nodes))))
    ELSE Then(PyGet2(data, "teams", "nodes"),
              LAMBDA teams :
                Then(PyIter(teams),
                     LAMBDA ts :
                       Then(TeamEntries(ts),
                            LAMBDA entries : Ret(Success("teams", JList(entries))))))

mutation_returnBug(data, payload, entity, message) ==
  Then(PyGet(data, payload, EmptyObj),
       LAMBDA result :
         Then(PyGet(result, entity, JNull),
              LAMBDA value :
                IF value # JNull
                  THEN Ret(Success(entity, value))
                  ELSE Ret(Failure(message))))

\* ---- the mutation handlers (mutations.py): the common tail
\*   result = data.get(payload, {})
\*   if result.get("success"): return {"success": True, entity: result.get(entity)}
\*   return {"success": False, "error": message, "isError": True}
mutation_return(data, payload, entity, message) ==
  Then(PyGet(data, payload, EmptyObj),
       LAMBDA result :
         Then(PyGet(result, "success", JNull),
              LAMBDA flag :
                IF Truthy(flag)
                  THEN Then(PyGet(result, entity, JNull),
                            LAMBDA value : Ret(Success(entity, value)))
                  ELSE Ret(Failure(message))))

\* ---- create_issue (mutations.py 120-158)
create_issue_request(c) ==
  header_request(c, CREATE_ISSUE_MUTATION,
                 JObj("teamId" :> c.args["team_id"] @@ "title" :> c.args["title"]
                      @@ "description" :> c.args["description"]
                      @@ "priority" :> c.args["priority"]
                      @@ "stateId" :> c.args["state_id"]
                      @@ "assigneeId" :> c.args["assignee_id"]
                      @@ "projectId" :> c.args["project_id"]))

create_issue_return(c, data) ==
  mutation_return(data, "issueCreate", "issue", <<"Issue creation failed">>)

\* ---- update_issue (mutations.py 164-199)
update_issue_request(c) ==
  header_request(c, UPDATE_ISSUE_MUTATION,
                 JObj("id" :> c.args["issue_id"] @@ "title" :> c.args["title"]
                      @@ "description" :> c.args["description"]
                      @@ "priority" :> c.args["priority"]
                      @@ "stateId" :> c.args["state_id"]
                      @@ "assigneeId" :> c.args["assignee_id"]))

update_issue_return(c, data) ==
  mutation_return(data, "issueUpdate", "issue", <<"Issue update failed">>)

\* ---- update_status (mutations.py 205-223)
update_status_request(c) ==
  header_request(c, UPDATE_STATUS_MUTATION,
                 JObj("id" :> c.args["issue_id"] @@ "stateId" :> c.args["state_id"]))

update_status_return(c, data) ==
  mutation_return(data, "issueUpdate", "issue", <<"Status update failed">>)

\* ---- create_project (mutations.py 229-258)
create_project_request(c) ==
  header_request(c, CREATE_PROJECT_MUTATION,
                 JObj("name" :> c.args["name"]
                      @@ "teamIds" :> JList(<<c.args["team_id"]>>)
                      @@ "description" :> c.args["description"]
                      @@ "state" :> c.args["state"]))

create_project_return(c, data) ==
  mutation_return(data, "projectCreate", "project", <<"Project creation failed">>)

\* ---- create_project_update (mutations.py 264-290)
create_project_update_request(c) ==
  header_request(c, CREATE_PROJECT_UPDATE_MUTATION,
                 JObj("projectId" :> c.args["project_id"] @@ "body" :> c.args["body"]
                      @@ "health" :> c.args["health"]))

create_project_update_return(c, data) ==
  mutation_return(data, "projectUpdateCreate", "projectUpdate", <<"Project update failed">>)

BrokeredTools ==
  {"my_issues", "issue", "search", "list_projects", "list_project_updates", "states"}
MutationTools ==
  {"create_issue", "update_issue", "update_status", "create_project",
   "create_project_update"}
\* the tools create_mcp_server registers (server.py 49-51)
Tools == BrokeredTools \cup MutationTools

\* the credential strategies handler call c goes through: a brokered tool
\* calls get_linear_token on its access context (brokered exchange);
\* execute_query calls get_bearer_token when it is given no token, which is
\* always so for a mutation tool and, for a brokered tool, when the context
\* yields None (header extraction)
StrategiesUsed(c) ==
  (IF c.op \in BrokeredTools THEN {"brokered"} ELSE {}) \cup
  (IF \/ c.op \in MutationTools
      \/ c.op \in BrokeredTools /\ get_linear_token(c.ctx) = Ret(JNull)
     THEN {"header"} ELSE {})

\* handler c.op up to its await
ToolRequest(c) ==
  CASE c.op = "my_issues" -> my_issues_request(c)
    [] c.op = "issue" -> issue_request(c)
    [] c.op = "search" -> search_request(c)
    [] c.op = "list_projects" -> list_projects_request(c)
    [] c.op = "list_project_updates" -> list_project_updates_request(c)
    [] c.op = "states" -> states_request(c)
    [] c.op = "create_issue" -> create_issue_request(c)
    [] c.op = "update_issue" -> update_issue_request(c)
    [] c.op = "update_status" -> update_status_request(c)
    [] c.op = "create_project" -> create_project_request(c)
    [] c.op = "create_project_update" -> create_project_update_request(c)

\* the part of handler c.op that runs once execute_query returned data
ToolReturn(c, data) ==
  CASE c.op = "my_issues" -> my_issues_return(c, data)
    [] c.op = "issue" -> issue_return(c, data)
    [] c.op = "search" -> search_return(c, data)
    [] c.op = "list_projects" -> list_projects_return(c, data)
    [] c.op = "list_project_updates" -> list_project_updates_return(c, data)
    [] c.op = "states" -> states_return(c, data)
    [] c.op = "create_issue" -> create_issue_return(c, data)
    [] c.op = "update_issue" -> update_issue_return(c, data)
    [] c.op = "update_status" -> update_status_return(c, data)
    [] c.op = "create_project" -> create_project_return(c, data)
    [] c.op = "create_project_update" -> create_project_update_return(c, data)

-----------------------------------------------------------------------------
(* The inputs the model enumerates.                                        *)

\* all sequences over S of length at most n
SeqsUpTo(S, n) == UNION {[1..m -> S] : m \in 0..n}

\* ---- inbound requests
InactiveRequest == [active |-> FALSE]
NoHeaderRequest == [active |-> TRUE, headers |-> EmptyMap]
RequestWith(h) == [active |-> TRUE, headers |-> ("authorization" :> h)]

Schemes ==
  { <<>>, <<"B", "e", "a", "r", "e", "r">>, <<"b", "e", "a", "r", "e", "r">>,
    <<"B", "E", "A", "R", "E", "R">>, <<"B", "a", "s", "i", "c">>,
    <<"B", "e", "a", "r">> }
Separators == { <<>>, <<" ">> }
BearerValues == SeqsUpTo({"a", "B", " "}, MaxTokenLen)
Headers == {s \o sep \o v : s \in Schemes, sep \in Separators, v \in BearerValues}

\* every inbound request get_bearer_token is tried on
Requests == {InactiveRequest, NoHeaderRequest} \cup {RequestWith(h) : h \in Headers}

\* the inbound requests the handlers are tried on
HandlerRequests ==
  { InactiveRequest, NoHeaderRequest,
    RequestWith(<<"B", "e", "a", "r", "e", "r", " ", "a", "B">>),
    RequestWith(<<"b", "e", "a", "r", "e", "r", " ", "a">>),
    RequestWith(<<"B", "a", "s", "i", "c", " ", "a", "B">>) }
BrokeredRequests ==
  { InactiveRequest, RequestWith(<<"B", "e", "a", "r", "e", "r", " ", "a", "B">>) }

\* ---- access contexts (ctx.get_state("keycardai"))
NoContext == [present |-> FALSE]
\* the credentials a context holds, by resource: token for the resource the
\* handlers are granted, and one for some other resource
Credentials(token) ==
  auth_LINEAR_API_URL :> [access_token |-> token]
  @@ <<"https://other.example">> :> [access_token |-> JStr(<<"tokOther">>)]
\* a context that reports errors may still hold a credential
ContextWithErrors(errors) ==
  [present |-> TRUE, errors |-> errors, access |-> Credentials(JStr(<<"tokE">>))]
ContextWithToken(token) ==
  [present |-> TRUE, errors |-> EmptyList, access |-> Credentials(token)]
Contexts ==
  { NoContext,
    ContextWithErrors(JList(<<JStr(<<"denied">>)>>)),
    ContextWithToken(JStr(<<"tokA">>)),
    ContextWithToken(JStr(<<"tokB">>)),
    ContextWithToken(JNull) }
\* the mutation handlers take no context
Unused == NoContext

\* ---- upstream responses
Node1 == JObj("id" :> JStr(<<"1">>))
Node2 == JObj("id" :> JStr(<<"2">>) @@ "title" :> JStr(<<"t2">>))
NodeLists == {JList(s) : s \in SeqsUpTo({Node1, Node2}, MaxNodes)}
Connections == {JNull, EmptyObj, JObj("nodes" :> JNull)} \cup {JObj("nodes" :> l) : l \in NodeLists}

Err1 == JObj("message" :> JStr(<<"m1">>))
Err2 == JObj("message" :> JStr(<<"m2">>) @@ "code" :> JStr(<<"c">>))
ErrNoMessage == JObj("code" :> JStr(<<"c">>))
ErrNullMessage == JObj("message" :> JNull)
ErrNotDict == JStr(<<"e">>)
ErrorEntries == {Err1, Err2, ErrNoMessage, ErrNullMessage, ErrNotDict}
\* every "errors" value execute_query is tried on
ErrorsValues ==
  {JList(s) : s \in SeqsUpTo(ErrorEntries, MaxErrors)} \cup
  {JNull, JStr(<<"o">>), JStr(<<>>), EmptyObj, JInt(0)}
\* the "errors" values the handlers are tried on
HandlerErrors ==
  {EmptyList, JList(<<Err1>>), JList(<<Err2, ErrNoMessage>>), JNull, JStr(<<"o">>)}

Teams ==
  { JObj("id" :> JStr(<<"T1">>) @@ "name" :> JStr(<<"Eng">>)
         @@ "states" :> JObj("nodes" :> JList(<<Node1, Node2>>))),
    JObj("id" :> JStr(<<"T2">>) @@ "name" :> JStr(<<"Ops">>)),
    JObj("name" :> JStr(<<"NoId">>)),
    JObj("id" :> JStr(<<"T3">>) @@ "name" :> JStr(<<"X">>) @@ "states" :> JNull) }
Projects ==
  { EmptyObj,
    JObj("id" :> JStr(<<"P1">>) @@ "name" :> JStr(<<"Proj">>)
         @@ "projectUpdates" :> JObj("nodes" :> JList(<<Node1, Node2>>))),
    JObj("id" :> JStr(<<"P1">>) @@ "projectUpdates" :> JNull) }
MutationPayloads(entity) ==
  { JNull, EmptyObj,
    JObj("success" :> JBool(TRUE) @@ entity :> Node1),
    JObj("success" :> JBool(TRUE)),
    JObj("success" :> JBool(FALSE) @@ entity :> Node1),
    JObj("success" :> JBool(FALSE)),
    JObj("success" :> JNull @@ entity :> Node1),
    JObj(entity :> Node1) }

\* the "data" objects upstream may answer handler op with
DataFor(op) ==
  {EmptyObj} \cup
  CASE op = "my_issues" ->
         {JObj("viewer" :> JNull)} \cup
         {JObj("viewer" :> JObj("assignedIssues" :> x)) : x \in Connections}
    [] op = "issue" -> {JObj("issue" :> x) : x \in {JNull, Node1, Node2}}
    [] op = "search" -> {JObj("issues" :> x) : x \in Connections}
    [] op = "list_projects" -> {JObj("projects" :> x) : x \in Connections}
    [] op = "list_project_updates" -> {JObj("project" :> x) : x \in {JNull} \cup Projects}
    [] op = "states" ->
         {JObj("team" :> x) : x \in {JNull} \cup Teams} \cup
         {JObj("teams" :> JObj("nodes" :> JList(s))) : s \in SeqsUpTo(Teams, MaxNodes)} \cup
         {JObj("teams" :> JNull), JObj("teams" :> JObj("nodes" :> JNull))}
    [] op \in {"create_issue"} ->
         {JObj("issueCreate" :> x) : x \in MutationPayloads("issue")}
    [] op \in {"update_issue", "update_status"} ->
         {JObj("issueUpdate" :> x) : x \in MutationPayloads("issue")}
    [] op = "create_project" ->
         {JObj("projectCreate" :> x) : x \in MutationPayloads("project")}
    [] op = "create_project_update" ->
         {JObj("projectUpdateCreate" :> x) : x \in MutationPayloads("projectUpdate")}
    [] op = "execute_query" -> {JObj("viewer" :> JObj("name" :> JStr(<<"Test User">>)))}

\* the JSON bodies upstream may answer op with
Bodies(op) ==
  {JNull, EmptyList, EmptyObj, JObj("data" :> JNull)} \cup
  {JObj("data" :> d) : d \in DataFor(op)} \cup
  IF op = "execute_query"
    THEN {JObj("errors" :> e) : e \in ErrorsValues} \cup
         {JObj("data" :> d @@ "errors" :> e) : d \in {JNull} \cup DataFor(op), e \in ErrorsValues}
    ELSE {JObj("errors" :> e) : e \in HandlerErrors} \cup
         {JObj("data" :> d @@ "errors" :> JList(<<Err1>>)) : d \in DataFor(op)}

\* a response: the raw text of a JSON body is written as the repr of the value
\* it parses to
Http(status_code, text, json) ==
  [kind |-> "http", status_code |-> status_code, text |-> text, json |-> json]
JsonResponse(status_code, body) == Http(status_code, PyRepr(body), body)
Timeout == [kind |-> "timeout"]

Responses(op) ==
  { Timeout,
    Http(401, <<"Unauthorized">>, NotJson),
    Http(204, <<>>, NotJson),
    Http(200, <<"<html>">>, NotJson),
    JsonResponse(201, JObj("data" :> EmptyObj)),
    JsonResponse(500, JObj("errors" :> JList(<<Err1>>))) } \cup
  {JsonResponse(200, b) : b \in Bodies(op)}

\* ---- arguments
Str(chunk) == JStr(<<chunk>>)
OptionalStr(chunk) == {JNull, Str(chunk)}
TeamIds == {JNull, JStr(<<>>), Str("T1")}
Descriptions == {JNull, JStr(<<>>), Str("d")}
Priorities == {JNull, JInt(0), JInt(2)}

\* the argument tuples handler op is tried on
Args(op) ==
  CASE op = "my_issues" -> {EmptyMap}
    [] op = "issue" -> {("identifier" :> x) : x \in {Str("ENG-999"), Str("ENG-1")}}
    [] op = "search" -> {("query" :> x) : x \in {Str("bug"), JStr(<<>>)}}
    [] op \in {"list_projects", "states"} -> {("team_id" :> x) : x \in TeamIds}
    [] op = "list_project_updates" ->
         {("project_id" :> Str("P1") @@ "limit" :> n) : n \in {JInt(10), JInt(1)}}
    [] op = "create_issue" ->
         {("team_id" :> Str("T1") @@ "title" :> Str("t") @@ "description" :> d
           @@ "priority" :> p @@ "state_id" :> st @@ "assignee_id" :> a
           @@ "project_id" :> pr) :
            d \in Descriptions, p \in Priorities, st \in OptionalStr("S1"),
            a \in OptionalStr("U1"), pr \in OptionalStr("P1")}
    [] op = "update_issue" ->
         {("issue_id" :> Str("I1") @@ "title" :> ti @@ "description" :> d
           @@ "priority" :> p @@ "state_id" :> st @@ "assignee_id" :> a) :
            ti \in OptionalStr("t"), d \in Descriptions, p \in Priorities,
            st \in OptionalStr("S1"), a \in OptionalStr("U1")}
    [] op = "update_status" -> {("issue_id" :> Str("I1") @@ "state_id" :> Str("S1"))}
    [] op = "create_project" ->
         {("name" :> Str("n") @@ "team_id" :> Str("T1") @@ "description" :> d
           @@ "state" :> st) : d \in Descriptions, st \in OptionalStr("started")}
    [] op = "create_project_update" ->
         {("project_id" :> Str("P1") @@ "body" :> Str("b") @@ "health" :> h) :
            h \in OptionalStr("onTrack")}

\* the values a variable is given when execute_query and sanitize_variables
\* are called directly
VariableValues ==
  {JNull, JInt(0), JStr(<<>>), JBool(FALSE), EmptyList, EmptyObj, Str("x")}
VariableMaps ==
  UNION {[ks -> VariableValues] : ks \in SUBSET {"a", "b"}}

-----------------------------------------------------------------------------
(* The state machine.                                                      *)

Invocations == {"inv1"}

NoCall == [op |-> "none"]
NoResponse == [kind |-> "none"]
NoOutcome == [k |-> "none"]

Init ==
  /\ pc = [i \in Invocations |-> "idle"]
  /\ call = [i \in Invocations |-> NoCall]
  /\ sent = [i \in Invocations |-> <<>>]
  /\ resp = [i \in Invocations |-> NoResponse]
  /\ parsed = [i \in Invocations |-> FALSE]
  /\ ret = [i \in Invocations |-> NoOutcome]

\* a call that ends without suspending
Finish(i, c, o) ==
  /\ pc' = [pc EXCEPT ![i] = "done"]
  /\ call' = [call EXCEPT ![i] = c]
  /\ ret' = [ret EXCEPT ![i] = o]
  /\ UNCHANGED <<sent, resp, parsed>>

SuspendBug(i, c, rq) ==
  /\ pc' = [pc EXCEPT ![i] = "awaiting"]
  /\ call' = [call EXCEPT ![i] = c]
  /\ sent' = [sent EXCEPT ![i] = Append(Append(@, rq), rq)]
  /\ UNCHANGED <<resp, parsed, ret>>

\* a call that reached client.post with request rq and suspends there
Suspend(i, c, rq) ==
  /\ pc' = [pc EXCEPT ![i] = "awaiting"]
  /\ call' = [call EXCEPT ![i] = c]
  /\ sent' = [sent EXCEPT ![i] = Append(@, rq)]
  /\ UNCHANGED <<resp, parsed, ret>>

\* handler c.op is invoked: it runs to its await, or to its return if the
\* credential cannot be resolved (the except clauses make the envelope)
Invoke(i, c, rq) ==
  IF IsRaise(rq) THEN Finish(i, c, handler_except(rq)) ELSE Suspend(i, c, rq.v)

ToolCall(op, args, request, ctx) ==
  [op |-> op, args |-> args, request |-> request, ctx |-> ctx]

my_issues(i) ==
  /\ pc[i] = "idle"
  /\ \E a \in Args("my_issues"), r \in BrokeredRequests, x \in Contexts :
       LET c == ToolCall("my_issues", a, r, x) IN Invoke(i, c, my_issues_request(c))

issue(i) ==
  /\ pc[i] = "idle"
  /\ \E a \in Args("issue"), r \in BrokeredRequests, x \in Contexts :
       LET c == ToolCall("issue", a, r, x) IN Invoke(i, c, issue_request(c))

search(i) ==
  /\ pc[i] = "idle"
  /\ \E a \in Args("search"), r \in BrokeredRequests, x \in Contexts :
       LET c == ToolCall("search", a, r, x) IN Invoke(i, c, search_request(c))

list_projects(i) ==
  /\ pc[i] = "idle"
  /\ \E a \in Args("list_projects"), r \in BrokeredRequests, x \in Contexts :
       LET c == ToolCall("list_projects", a, r, x) IN Invoke(i, c, list_projects_request(c))

list_project_updates(i) ==
  /\ pc[i] = "idle"
  /\ \E a \in Args("list_project_updates"), r \in BrokeredRequests, x \in Contexts :
       LET c == ToolCall("list_project_updates", a, r, x)
       IN Invoke(i, c, list_project_updates_request(c))

states(i) ==
  /\ pc[i] = "idle"
  /\ \E a \in Args("states"), r \in BrokeredRequests, x \in Contexts :
       LET c == ToolCall("states", a, r, x) IN Invoke(i, c, states_request(c))

create_issue(i) ==
  /\ pc[i] = "idle"
  /\ \E a \in Args("create_issue"), r \in HandlerRequests :
       LET c == ToolCall("create_issue", a, r, Unused) IN Invoke(i, c, create_issue_request(c))

update_issue(i) ==
  /\ pc[i] = "idle"
  /\ \E a \in Args("update_issue"), r \in HandlerRequests :
       LET c == ToolCall("update_issue", a, r, Unused) IN Invoke(i, c, update_issue_request(c))

update_status(i) ==
  /\ pc[i] = "idle"
  /\ \E a \in Args("update_status"), r \in HandlerRequests :
       LET c == ToolCall("update_status", a, r, Unused) IN Invoke(i, c, update_status_request(c))

create_project(i) ==
  /\ pc[i] = "idle"
  /\ \E a \in Args("create_project"), r \in HandlerRequests :
       LET c == ToolCall("create_project", a, r, Unused)
       IN Invoke(i, c, create_project_request(c))

create_project_update(i) ==
  /\ pc[i] = "idle"
  /\ \E a \in Args("create_project_update"), r \in HandlerRequests :
       LET c == ToolCall("create_project_update", a, r, Unused)
       IN Invoke(i, c, create_project_update_request(c))

\* the inbound requests execute_query is tried on when it is given a token
TokenOverrideRequests ==
  { InactiveRequest, NoHeaderRequest,
    RequestWith(<<"B", "e", "a", "r", "e", "r", " ", "a", "B">>) }

\* execute_query called directly, as tests/test_client.py does
TestExecuteQuery(i) ==
  /\ pc[i] = "idle"
  /\ \E variables \in {JNull} \cup {JObj(m) : m \in VariableMaps},
        token \in {JNull, Str("override_token")},
        r \in HandlerRequests :
       LET c == ToolCall("execute_query",
                         "query" :> Str("q") @@ "variables" :> variables @@ "token" :> token,
                         r, Unused)
                @@ ("after" :> execute_query_argument(variables))
           rq == execute_query_request(c.args["query"], variables, token, r)
       IN /\ token # JNull => r \in TokenOverrideRequests
          /\ IF IsRaise(rq) THEN Finish(i, c, rq) ELSE Suspend(i, c, rq.v)

\* get_bearer_token called directly
TestGetBearerToken(i) ==
  /\ pc[i] = "idle"
  /\ \E r \in Requests :
       Finish(i, ToolCall("get_bearer_token", EmptyMap, r, Unused), get_bearer_token(r))

\* get_linear_token called directly
TestGetLinearToken(i) ==
  /\ pc[i] = "idle"
  /\ \E x \in Contexts :
       Finish(i, ToolCall("get_linear_token", EmptyMap, InactiveRequest, x),
              get_linear_token(x))

\* sanitize_variables called directly
TestSanitizeVariables(i) ==
  /\ pc[i] = "idle"
  /\ \E m \in VariableMaps :
       Finish(i, ToolCall("sanitize_variables", "variables" :> JObj(m), InactiveRequest, Unused)
                 @@ ("after" :> sanitize_variables_argument(JObj(m))),
              Ret(sanitize_variables(JObj(m))))

\* the responses the model lets upstream give to call c
ResponsesTo(c) ==
  IF c.op = "execute_query" /\ c.args["variables"] # JNull
    THEN {Timeout, JsonResponse(200, JObj("data" :> EmptyObj))}
    ELSE Responses(c.op)

ResumeBug(i, response) ==
  LET last == IF \E j \in DOMAIN resp : j # i /\ resp[j] # NoResponse
                THEN resp[CHOOSE j \in DOMAIN resp : j # i /\ resp[j] # NoResponse]
                ELSE response
      r == execute_query_response(last)
  IN
    /\ resp' = [resp EXCEPT ![i] = response]
    /\ parsed' = [parsed EXCEPT ![i] = r.parsed]
    /\ ret' = [ret EXCEPT ![i] =
                 IF call[i].op \in Tools
                   THEN handler_except(Then(r.o, LAMBDA data : ToolReturn(call[i], data)))
                   ELSE r.o]
    /\ pc' = [pc EXCEPT ![i] = "done"]
    /\ UNCHANGED <<call, sent>>

\* client.post finished with response (or by timing out) for the suspended
\* call of invocation i, which runs to its end: the rest of execute_query,
\* then, in a handler, the rest of the try body and the except clauses
Resume(i, response) ==
  LET r == execute_query_response(response) IN
    /\ resp' = [resp EXCEPT ![i] = response]
    /\ parsed' = [parsed EXCEPT ![i] = r.parsed]
    /\ ret' = [ret EXCEPT ![i] =
                 IF call[i].op \in Tools
                   THEN handler_except(Then(r.o, LAMBDA data : ToolReturn(call[i], data)))
                   ELSE r.o]
    /\ pc' = [pc EXCEPT ![i] = "done"]
    /\ UNCHANGED <<call, sent>>

\* upstream answers the suspended call of invocation i
Respond(i) ==
  /\ pc[i] = "awaiting"
  /\ \E response \in ResponsesTo(call[i]) : Resume(i, response)

\* the caller takes the result; the invocation's state is gone
Deliver(i) ==
  /\ pc[i] = "done"
  /\ pc' = [pc EXCEPT ![i] = "idle"]
  /\ call' = [call EXCEPT ![i] = NoCall]
  /\ sent' = [sent EXCEPT ![i] = <<>>]
  /\ resp' = [resp EXCEPT ![i] = NoResponse]
  /\ parsed' = [parsed EXCEPT ![i] = FALSE]
  /\ ret' = [ret EXCEPT ![i] = NoOutcome]

Next ==
  \E i \in Invocations :
    \/ my_issues(i)
    \/ issue(i)
    \/ search(i)
    \/ list_projects(i)
    \/ list_project_updates(i)
    \/ states(i)
    \/ create_issue(i)
    \/ update_issue(i)
    \/ update_status(i)
    \/ create_project(i)
    \/ create_project_update(i)
    \/ TestExecuteQuery(i)
    \/ TestGetBearerToken(i)
    \/ TestGetLinearToken(i)
    \/ TestSanitizeVariables(i)
    \/ Respond(i)
    \/ Deliver(i)

Spec == Init /\ [][Next]_vars

-----------------------------------------------------------------------------
(* Concurrent invocations: the server runs each tool call as a task of its *)
(* own; a task runs until it awaits client.post, and tasks interleave at   *)
(* the awaits.                                                             *)

ConcurrentInvocations == {"inv1", "inv2"}

\* the tools, inbound requests, access contexts and upstream answers the
\* interleavings are explored with
ConcurrentTools == {"issue", "list_projects", "update_status"}
ConcurrentRequests ==
  { RequestWith(<<"B", "e", "a", "r", "e", "r", " ", "a", "B">>),
    RequestWith(<<"b", "e", "a", "r", "e", "r", " ", "a">>) }
ConcurrentContexts ==
  { ContextWithToken(JStr(<<"tokA">>)), ContextWithToken(JStr(<<"tokB">>)),
    ContextWithToken(JNull) }
ConcurrentData(op) ==
  CASE op = "issue" -> JObj("issue" :> Node1)
    [] op = "list_projects" -> JObj("projects" :> JObj("nodes" :> JList(<<Node1, Node2>>)))
    [] op = "update_status" ->
         JObj("issueUpdate" :> JObj("success" :> JBool(TRUE) @@ "issue" :> Node1))
ConcurrentResponses(op) ==
  { Timeout,
    Http(401, <<"Unauthorized">>, NotJson),
    JsonResponse(200, JObj("data" :> EmptyObj)),
    JsonResponse(200, JObj("data" :> ConcurrentData(op))) }

InitConcurrent ==
  /\ pc = [i \in ConcurrentInvocations |-> "idle"]
  /\ call = [i \in ConcurrentInvocations |-> NoCall]
  /\ sent = [i \in ConcurrentInvocations |-> <<>>]
  /\ resp = [i \in ConcurrentInvocations |-> NoResponse]
  /\ parsed = [i \in ConcurrentInvocations |-> FALSE]
  /\ ret = [i \in ConcurrentInvocations |-> NoOutcome]

\* an inbound tool call arrives: the framework starts a task for it, with the
\* HTTP request as the task's ambient request and, for a tool under
\* auth_provider.grant, the access context in the task's Context
Arrive(i) ==
  /\ pc[i] = "idle"
  /\ \E op \in ConcurrentTools, r \in ConcurrentRequests :
       \E a \in Args(op),
          x \in IF op \in MutationTools THEN {Unused} ELSE ConcurrentContexts :
         call' = [call EXCEPT ![i] = ToolCall(op, a, r, x)]
  /\ pc' = [pc EXCEPT ![i] = "arrived"]
  /\ UNCHANGED <<sent, resp, parsed, ret>>

get_http_requestBug(i) ==
  IF \E j \in DOMAIN call : j # i /\ call[j].op # "none"
    THEN call[CHOOSE j \in DOMAIN call : j # i /\ call[j].op # "none"].request
    ELSE call[i].request

\* get_http_request() in the task of invocation i: the ambient request is a
\* context variable, so each task sees the request it was started for
get_http_request(i) == call[i].request

\* the task of invocation i runs its handler to the await (or to its return,
\* when the credential cannot be resolved)
Run(i) ==
  /\ pc[i] = "arrived"
  /\ Invoke(i, call[i], ToolRequest([call[i] EXCEPT !.request = get_http_request(i)]))

\* upstream answers invocation i and its task runs to the end
Answer(i) ==
  /\ pc[i] = "awaiting"
  /\ \E response \in ConcurrentResponses(call[i].op) : Resume(i, response)

NextConcurrent ==
  \E i \in ConcurrentInvocations :
    \/ Arrive(i)
    \/ Run(i)
    \/ Answer(i)
    \/ Deliver(i)

ConcurrentSpec == InitConcurrent /\ [][NextConcurrent]_vars

-----------------------------------------------------------------------------
(* The claims.                                                             *)

Done(i) == pc[i] = "done"
ToolDone(i) == Done(i) /\ call[i].op \in Tools
ExecDone(i) == Done(i) /\ call[i].op = "execute_query" /\ resp[i] # NoResponse
\* execute_query got an HTTP response with this status
ExecAnswered(i) == ExecDone(i) /\ resp[i].kind = "http"
\* execute_query got a status-200 response whose body is a JSON object
ExecOkObject(i) ==
  /\ ExecAnswered(i)
  /\ resp[i].status_code = 200
  /\ resp[i].json # NotJson
  /\ resp[i].json.t = "obj"

\* C1: every invocation of a tool handler ends by returning an envelope; no
\* exception leaves the handler, whatever credential resolution and the
\* upstream call do (timeout, data null, a null mutation payload, a team
\* without id or name, an errors field that is not a list)
C1_NoExceptionEscapes == \A i \in Invocations : ToolDone(i) => IsRet(ret[i])

\* the two shapes of an envelope
IsSuccessEnvelope(e) ==
  /\ e.t = "obj"
  /\ "success" \in DOMAIN e.v
  /\ e.v["success"] = JBool(TRUE)
  /\ "isError" \notin DOMAIN e.v
  /\ "error" \notin DOMAIN e.v
IsFailureEnvelope(e) ==
  /\ e.t = "obj"
  /\ DOMAIN e.v = {"success", "error", "isError"}
  /\ e.v["success"] = JBool(FALSE)
  /\ e.v["isError"] = JBool(TRUE)
  /\ e.v["error"].t = "str"

\* C2: every value a tool handler returns is a success envelope (success true,
\* no isError and no error key) or a failure envelope (success false, isError
\* true, error a string), never a mix of the two
C2_EnvelopeShapes ==
  \A i \in Invocations :
    ToolDone(i) /\ IsRet(ret[i]) =>
      IsSuccessEnvelope(ret[i].v) \/ IsFailureEnvelope(ret[i].v)

\* a mutation handler answered a payload with success false by the failure envelope
C2_Witness ==
  \E i \in Invocations :
    /\ ToolDone(i)
    /\ call[i].op = "create_issue"
    /\ resp[i] = JsonResponse(200, JObj("data" :> JObj("issueCreate" :>
                   JObj("success" :> JBool(FALSE) @@ "issue" :> Node1))))
    /\ IsRet(ret[i])
    /\ IsFailureEnvelope(ret[i].v)

\* the value of a sequence of decimal digits
RECURSIVE DecimalValue(_)
DecimalValue(d) ==
  IF Len(d) = 0 THEN 0
  ELSE 10 * DecimalValue(SubSeq(d, 1, Len(d) - 1))
       + (CHOOSE n \in 0..9 : <<"0","1","2","3","4","5","6","7","8","9">>[n + 1] = d[Len(d)])
Digits == {"0", "1", "2", "3", "4", "5", "6", "7", "8", "9"}

\* the outcome is LinearClientError raised for the HTTP status
IsHttpError(o) ==
  /\ IsRaise(o)
  /\ o.exc = "LinearClientError"
  /\ o.message[1] = "Linear API returned HTTP "

\* C3: when the upstream status is not 200, execute_query fails with
\* LinearClientError, the message holds the decimal status code and the raw
\* body text, and the body is not parsed as JSON
C3_HttpError ==
  \A i \in Invocations :
    ExecAnswered(i) /\ resp[i].status_code # 200 =>
      /\ IsRaise(ret[i])
      /\ ret[i].exc = "LinearClientError"
      /\ \E d \in [1..3 -> Digits] :
           /\ DecimalValue(d) = resp[i].status_code
           /\ Contains(ret[i].message, d)
      /\ Contains(ret[i].message, resp[i].text)
      /\ ~parsed[i]

\* execute_query failed on a 401 whose body is the text Unauthorized
C3_Witness ==
  \E i \in Invocations :
    /\ ExecAnswered(i)
    /\ resp[i] = Http(401, <<"Unauthorized">>, NotJson)
    /\ IsHttpError(ret[i])

\* C4 as claimed: LinearClientError for the HTTP status is raised exactly for
\* the statuses outside 200..299, so no 2xx response (201, 204) is a
\* transport error
C4_ExactlyNon2xx ==
  \A i \in Invocations :
    ExecAnswered(i) =>
      (IsHttpError(ret[i]) <=> resp[i].status_code \notin 200..299)

\* C4 amended: LinearClientError for the HTTP status is raised exactly for
\* the statuses other than 200; every other 2xx status (201, 204) is a
\* transport error too
C4_ExactlyNot200 ==
  \A i \in Invocations :
    ExecAnswered(i) =>
      (IsHttpError(ret[i]) <=> resp[i].status_code # 200)

\* execute_query failed on a 201 whose body is a well-formed result
C4_Witness ==
  \E i \in Invocations :
    /\ ExecAnswered(i)
    /\ resp[i] = JsonResponse(201, JObj("data" :> EmptyObj))
    /\ IsHttpError(ret[i])

\* the outcome is LinearClientError raised for the body's errors
IsGraphQLError(o) ==
  /\ IsRaise(o)
  /\ o.exc = "LinearClientError"
  /\ o.message[1] = "GraphQL errors: "

\* an errors entry as upstream documents it: an object whose message, if it
\* has one, is a string
WellFormedEntry(e) ==
  /\ e.t = "obj"
  /\ "message" \in DOMAIN e.v => e.v["message"].t = "str"
\* a body whose errors field, if it has one, is an array of such entries
WellFormedErrors(body) ==
  "errors" \in DOMAIN body.v =>
    /\ body.v["errors"].t = "list"
    /\ \A n \in 1..Len(body.v["errors"].v) : WellFormedEntry(body.v["errors"].v[n])
\* the body holds a non-empty errors array
HasGraphQLErrors(body) ==
  /\ "errors" \in DOMAIN body.v
  /\ body.v["errors"].t = "list"
  /\ Len(body.v["errors"].v) > 0
\* the body's data field, or an empty mapping
DataOf(body) == IF "data" \in DOMAIN body.v THEN body.v["data"] ELSE EmptyObj

\* C5: on a status-200 response execute_query fails with LinearClientError
\* exactly when the body holds a non-empty errors array (with or without
\* data); when the array is empty or absent it returns data
C5_FailsIffNonEmptyErrors ==
  \A i \in Invocations :
    ExecOkObject(i) /\ WellFormedErrors(resp[i].json) =>
      IF HasGraphQLErrors(resp[i].json)
        THEN IsGraphQLError(ret[i])
        ELSE ret[i] = Ret(DataOf(resp[i].json))

\* the message the claim expects for one errors entry
EntryMessage(e) == IF "message" \in DOMAIN e.v THEN e.v["message"].v ELSE PyStr(e)
\* the "; "-joined messages of the entries es, in order
RECURSIVE JoinedMessages(_)
JoinedMessages(es) ==
  IF Len(es) = 0 THEN <<>>
  ELSE IF Len(es) = 1 THEN EntryMessage(es[1])
  ELSE EntryMessage(es[1]) \o <<"; ">> \o JoinedMessages(Tail(es))

\* execute_query failed on the errors array of a status-200 body
FailedOnErrorsArray(i) ==
  /\ ExecOkObject(i)
  /\ IsGraphQLError(ret[i])
  /\ resp[i].json.v["errors"].t = "list"

\* C6 as claimed: the error's message is the "; "-joined messages of the
\* entries (an entry's string form when it has no message), in upstream
\* order, and its errors attribute is the upstream errors array
C6_MessageIsJoined ==
  \A i \in Invocations :
    FailedOnErrorsArray(i) =>
      /\ ret[i].message = JoinedMessages(resp[i].json.v["errors"].v)
      /\ ret[i].errors = resp[i].json.v["errors"]

\* C6 amended: the error's message is "GraphQL errors: " followed by the
\* "; "-joined messages of the entries, in upstream order, and its errors
\* attribute is the upstream errors array
C6_MessageIsPrefixedJoin ==
  \A i \in Invocations :
    FailedOnErrorsArray(i) =>
      /\ ret[i].message = <<"GraphQL errors: ">> \o JoinedMessages(resp[i].json.v["errors"].v)
      /\ ret[i].errors = resp[i].json.v["errors"]

\* execute_query failed on two entries, the second without a message
C6_Witness ==
  \E i \in Invocations :
    /\ FailedOnErrorsArray(i)
    /\ resp[i].json.v["errors"] = JList(<<Err2, ErrNoMessage>>)
    /\ ret[i].message = <<"GraphQL errors: ", "m2", "; ", "{", "'", "code", "'", ": ", "'", "c", "'", "}">>

\* C7: on a status-200 response without GraphQL errors (no errors field, or
\* an empty errors array) execute_query returns the data field, or an empty
\* mapping when there is none
C7_ReturnsData ==
  \A i \in Invocations :
    ExecOkObject(i) /\ WellFormedErrors(resp[i].json) /\ ~HasGraphQLErrors(resp[i].json) =>
      ret[i] = Ret(DataOf(resp[i].json))

\* the variables execute_query was called with, and the body it posted
CalledVariables(i) == call[i].args["variables"]
PostedBody(i) == sent[i][1].json.v
\* the entries of a mapping that are not None
NonNullKeys(m) == {key \in DOMAIN m : m[key] # JNull}

\* C8: the body execute_query posts holds a variables field only when the
\* sanitized variables are not empty; for variables that are absent, empty
\* or all None the body is just the query, never variables {}; a variables
\* field that is sent is the sanitized mapping
C8_VariablesOnlyWhenNonEmpty ==
  \A i \in Invocations :
    call[i].op = "execute_query" /\ Len(sent[i]) > 0 =>
      IF CalledVariables(i) = JNull \/ NonNullKeys(CalledVariables(i).v) = {}
        THEN DOMAIN PostedBody(i) = {"query"}
        ELSE /\ DOMAIN PostedBody(i) = {"query", "variables"}
             /\ PostedBody(i)["variables"] # EmptyObj
             /\ DOMAIN PostedBody(i)["variables"].v = NonNullKeys(CalledVariables(i).v)

\* C9: sanitize_variables(m) holds exactly the entries of m whose value is
\* not None: every None-valued key is gone, every other value (0, "", False,
\* empty collections included) is there under its key, unchanged
C9_SanitizeExactlyNonNull ==
  \A i \in Invocations :
    Done(i) /\ call[i].op = "sanitize_variables" =>
      LET m == call[i].args["variables"].v
          out == ret[i].v
      IN /\ IsRet(ret[i])
         /\ out.t = "obj"
         /\ DOMAIN out.v = NonNullKeys(m)
         /\ \A key \in DOMAIN out.v : out.v[key] = m[key]

\* a mapping with a None and an empty string went through sanitize_variables
C9_Witness ==
  \E i \in Invocations :
    /\ Done(i)
    /\ call[i].op = "sanitize_variables"
    /\ call[i].args["variables"] = JObj("a" :> JNull @@ "b" :> JStr(<<>>))
    /\ ret[i] = Ret(JObj("b" :> JStr(<<>>)))

\* s is the word bearer in any mix of cases
IsBearerScheme(s) ==
  /\ Len(s) = 6
  /\ \A n \in 1..6 :
       s[n] \in << {"b", "B"}, {"e", "E"}, {"a", "A"}, {"r", "R"}, {"e", "E"}, {"r", "R"} >>[n]
\* the places where header h reads <scheme> <value>: the scheme has no space
\* in it and is followed by one space
SchemeEnds(h) ==
  {n \in 1..Len(h) : h[n] = " " /\ \A j \in 1..(n - 1) : h[j] # " "}
\* the inbound Authorization header, empty when there is none
InboundHeader(i) ==
  IF "authorization" \in DOMAIN call[i].request.headers
    THEN call[i].request.headers["authorization"] ELSE <<>>

IsNoActiveRequest(o) ==
  /\ IsRaise(o)
  /\ o.exc = "ValueError"
  /\ o.message[1] = "No active HTTP request"

\* C11: with no active inbound request, get_bearer_token (called directly,
\* or by execute_query when it is given no token) fails with "No active HTTP
\* request ..." and never with the missing-header or invalid-format error
C11_NoActiveRequest ==
  \A i \in Invocations :
    /\ Done(i)
    /\ ~call[i].request.active
    /\ \/ call[i].op = "get_bearer_token"
       \/ call[i].op = "execute_query" /\ call[i].args["token"] = JNull
    => /\ IsNoActiveRequest(ret[i])
       /\ sent[i] = <<>>

\* get_bearer_token was called with no active request and failed
C11_Witness ==
  \E i \in Invocations :
    /\ Done(i)
    /\ call[i].op = "get_bearer_token"
    /\ call[i].request = InactiveRequest
    /\ IsNoActiveRequest(ret[i])

\* the access context is present and reports authorization errors
ReportsErrors(x) == x.present /\ x.errors.t = "list" /\ Len(x.errors.v) > 0

\* C12: get_linear_token fails with "No authentication context ..." on an
\* absent context; on a context that reports errors it fails with
\* "Authentication errors: <the broker's error list>" (the credential the
\* context holds is not what comes back, and a handler sends no request with
\* it); on a present context without errors it returns the credential held
\* for the upstream resource URL
C12_GetLinearToken ==
  \A i \in Invocations :
    /\ Done(i) /\ call[i].op \in BrokeredTools /\ ReportsErrors(call[i].ctx) =>
         sent[i] = <<>>
    /\ Done(i) /\ call[i].op = "get_linear_token" =>
      LET x == call[i].ctx IN
        IF ~x.present
          THEN /\ IsRaise(ret[i])
               /\ ret[i].exc = "ValueError"
               /\ ret[i].message[1] = "No authentication context"
        ELSE IF ReportsErrors(x)
          THEN /\ IsRaise(ret[i])
               /\ ret[i].exc = "ValueError"
               /\ ret[i].message = <<"Authentication errors: ">> \o PyRepr(x.errors)
        ELSE ret[i] = Ret(x.access[<<"https://api.linear.app">>].access_token)

\* a context that reports errors while holding a credential gave the error
C12_Witness ==
  \E i \in Invocations :
    /\ Done(i)
    /\ call[i].op = "get_linear_token"
    /\ ReportsErrors(call[i].ctx)
    /\ call[i].ctx.access[<<"https://api.linear.app">>].access_token = JStr(<<"tokE">>)
    /\ IsRaise(ret[i])

\* the upstream call of invocation i succeeded: status 200, a JSON object
\* without an errors field, whose data is an object
UpstreamSucceeded(i) ==
  /\ ToolDone(i)
  /\ resp[i].kind = "http"
  /\ resp[i].status_code = 200
  /\ resp[i].json # NotJson
  /\ resp[i].json.t = "obj"
  /\ "errors" \notin DOMAIN resp[i].json.v
  /\ "data" \in DOMAIN resp[i].json.v
  /\ resp[i].json.v["data"].t = "obj"
\* the data object upstream answered invocation i with
UpstreamData(i) == resp[i].json.v["data"].v
\* entity key of the data is null or absent
NullEntity(i, key) == key \notin DOMAIN UpstreamData(i) \/ UpstreamData(i)[key] = JNull
\* the failure envelope "<prefix><argument arg> not found"
NotFound(i, prefix, arg) ==
  Ret(JObj("success" :> JBool(FALSE)
           @@ "error" :> JStr(<<prefix>> \o call[i].args[arg].v \o <<" not found">>)
           @@ "isError" :> JBool(TRUE)))
\* invocation i is a singular lookup of the entity under key
SingularLookup(i, key) ==
  CASE key = "issue" -> call[i].op = "issue"
    [] key = "project" -> call[i].op = "list_project_updates"
    [] key = "team" -> call[i].op = "states" /\ Truthy(call[i].args["team_id"])

\* C14: issue, list_project_updates and states with a team id return the
\* failure envelope "<Entity> <identifier> not found" when the upstream call
\* succeeded and the entity is null
C14_NotFound ==
  \A i \in Invocations :
    /\ UpstreamSucceeded(i) /\ SingularLookup(i, "issue") /\ NullEntity(i, "issue")
         => ret[i] = NotFound(i, "Issue ", "identifier")
    /\ UpstreamSucceeded(i) /\ SingularLookup(i, "project") /\ NullEntity(i, "project")
         => ret[i] = NotFound(i, "Project ", "project_id")
    /\ UpstreamSucceeded(i) /\ SingularLookup(i, "team") /\ NullEntity(i, "team")
         => ret[i] = NotFound(i, "Team ", "team_id")

\* issue("ENG-999") was answered {"data": {"issue": null}}
C14_Witness ==
  \E i \in Invocations :
    /\ UpstreamSucceeded(i)
    /\ call[i].op = "issue"
    /\ call[i].args["identifier"] = JStr(<<"ENG-999">>)
    /\ "issue" \in DOMAIN UpstreamData(i)
    /\ UpstreamData(i)["issue"] = JNull
    /\ ret[i] = Ret(Failure(<<"Issue ", "ENG-999", " not found">>))

\* the key a collection tool returns its collection under
CollectionKey(op) ==
  CASE op \in {"my_issues", "search"} -> "issues"
    [] op = "list_projects" -> "projects"
    [] op = "list_project_updates" -> "updates"
\* the path from the data object to the connection the tool reads
ConnectionPath(op) ==
  CASE op = "my_issues" -> <<"viewer", "assignedIssues">>
    [] op = "search" -> <<"issues">>
    [] op = "list_projects" -> <<"projects">>
    [] op = "list_project_updates" -> <<"project", "projectUpdates">>
\* the value at path in object v, or JNull where the path leaves the objects
RECURSIVE At(_, _)
At(v, path) ==
  IF Len(path) = 0 THEN v
  ELSE IF v.t = "obj" /\ path[1] \in DOMAIN v.v THEN At(v.v[path[1]], Tail(path))
  ELSE JNull
\* upstream answered invocation i with a nodes list
UpstreamNodes(i) == At(resp[i].json, <<"data">> \o ConnectionPath(call[i].op) \o <<"nodes">>)
CollectionTools == {"my_issues", "search", "list_projects", "list_project_updates"}
ReturnedSuccess(i) ==
  /\ IsRet(ret[i])
  /\ ret[i].v.t = "obj"
  /\ "success" \in DOMAIN ret[i].v.v
  /\ ret[i].v.v["success"] = JBool(TRUE)

\* C15: in every success envelope of my_issues, search, list_projects and
\* list_project_updates, count is the length of the collection in the same
\* envelope, and the collection is the nodes list upstream sent (the empty
\* list when upstream sent no nodes field)
C15_CountIsLength ==
  \A i \in Invocations :
    ToolDone(i) /\ call[i].op \in CollectionTools /\ ReturnedSuccess(i) =>
      LET env == ret[i].v.v
          coll == env[CollectionKey(call[i].op)]
      IN /\ coll.t = "list"
         /\ env["count"] = JInt(Len(coll.v))
         /\ coll = (IF UpstreamNodes(i) = JNull THEN EmptyList ELSE UpstreamNodes(i))

\* search returned two equal nodes with count 2
C15_Witness ==
  \E i \in Invocations :
    /\ ToolDone(i)
    /\ call[i].op = "search"
    /\ ReturnedSuccess(i)
    /\ UpstreamNodes(i) = JList(<<Node1, Node1>>)
    /\ ret[i].v.v["issues"] = JList(<<Node1, Node1>>)
    /\ ret[i].v.v["count"] = JInt(2)

\* the payload key, the entity key and the fixed failure message of a mutation
PayloadKey(op) ==
  CASE op = "create_issue" -> "issueCreate"
    [] op \in {"update_issue", "update_status"} -> "issueUpdate"
    [] op = "create_project" -> "projectCreate"
    [] op = "create_project_update" -> "projectUpdateCreate"
EntityKey(op) ==
  CASE op \in {"create_issue", "update_issue", "update_status"} -> "issue"
    [] op = "create_project" -> "project"
    [] op = "create_project_update" -> "projectUpdate"
FixedMessage(op) ==
  CASE op = "create_issue" -> "Issue creation failed"
    [] op = "update_issue" -> "Issue update failed"
    [] op = "update_status" -> "Status update failed"
    [] op = "create_project" -> "Project creation failed"
    [] op = "create_project_update" -> "Project update failed"
\* the mutation payload upstream answered invocation i with: an object, the
\* empty object when the data has none
MutationPayload(i) ==
  IF PayloadKey(call[i].op) \in DOMAIN UpstreamData(i)
    THEN UpstreamData(i)[PayloadKey(call[i].op)] ELSE EmptyObj
\* upstream answered mutation i without error and with a payload object
MutationAnswered(i) ==
  /\ UpstreamSucceeded(i)
  /\ call[i].op \in MutationTools
  /\ MutationPayload(i).t = "obj"
\* the payload's own success flag is true
FlagTrue(i) ==
  /\ "success" \in DOMAIN MutationPayload(i).v
  /\ MutationPayload(i).v["success"] = JBool(TRUE)

\* C16: a mutation handler whose upstream call returned without error
\* returns the failure envelope with its fixed message when the payload's
\* success flag is false or missing, whatever entity the payload holds, and
\* the success envelope with the payload's entity when the flag is true
C16_MutationFlag ==
  \A i \in Invocations :
    MutationAnswered(i) =>
      IF FlagTrue(i)
        THEN ret[i] =
               Ret(JObj("success" :> JBool(TRUE)
                        @@ EntityKey(call[i].op) :>
                             (IF EntityKey(call[i].op) \in DOMAIN MutationPayload(i).v
                                THEN MutationPayload(i).v[EntityKey(call[i].op)]
                                ELSE JNull)))
        ELSE ret[i] =
               Ret(JObj("success" :> JBool(FALSE)
                        @@ "error" :> JStr(<<FixedMessage(call[i].op)>>)
                        @@ "isError" :> JBool(TRUE)))

\* create_project_update got {"success": false, "projectUpdate": {...}} and
\* answered "Project update failed"
C16_Witness ==
  \E i \in Invocations :
    /\ MutationAnswered(i)
    /\ call[i].op = "create_project_update"
    /\ MutationPayload(i) = JObj("success" :> JBool(FALSE) @@ "projectUpdate" :> Node1)
    /\ ret[i] = Ret(Failure(<<"Project update failed">>))

\* the GraphQL document of the n-th request invocation i sent
SentQuery(i, n) == sent[i][n].json.v["query"]
\* the one document list_projects and states are to send for their argument
AlternativeQuery(c) ==
  CASE c.op = "list_projects" ->
         IF c.args["team_id"] \in {JNull, JStr(<<>>)}
           THEN JStr(<<"LIST_PROJECTS_QUERY">>) ELSE JStr(<<"LIST_PROJECTS_BY_TEAM_QUERY">>)
    [] c.op = "states" ->
         IF c.args["team_id"] \in {JNull, JStr(<<>>)}
           THEN JStr(<<"ALL_TEAMS_STATES_QUERY">>) ELSE JStr(<<"TEAM_STATES_QUERY">>)

\* C17: an invocation sends at most one upstream POST: none when the
\* credential cannot be resolved, exactly one otherwise, and none after the
\* response whatever it was; list_projects and states send the one query
\* their team_id argument selects
C17_OneRequest ==
  \A i \in Invocations :
    /\ Len(sent[i]) <= 1
    /\ pc[i] = "awaiting" => Len(sent[i]) = 1
    /\ Done(i) /\ resp[i] # NoResponse => Len(sent[i]) = 1
    /\ Done(i) /\ resp[i] = NoResponse => Len(sent[i]) = 0
    /\ call[i].op \in {"list_projects", "states"} /\ Len(sent[i]) > 0 =>
         \A n \in 1..Len(sent[i]) : SentQuery(i, n) = AlternativeQuery(call[i])

\* states("T1") sent the team query, upstream answered 500, and one request
\* was sent in all
C17_Witness ==
  \E i \in Invocations :
    /\ ToolDone(i)
    /\ call[i].op = "states"
    /\ call[i].args["team_id"] = JStr(<<"T1">>)
    /\ resp[i].kind = "http"
    /\ resp[i].status_code = 500
    /\ Len(sent[i]) = 1
    /\ SentQuery(i, 1) = JStr(<<"TEAM_STATES_QUERY">>)

\* the failure envelope whose error is the text message
ErrorEnvelope(message) ==
  Ret(JObj("success" :> JBool(FALSE) @@ "error" :> JStr(message) @@ "isError" :> JBool(TRUE)))
\* how credential resolution ends for the handler call c: the brokered tools
\* ask the access context (and, given no token by it, the inbound header),
\* the mutation tools the inbound header
CredentialOutcome(c) ==
  IF c.op \in BrokeredTools
    THEN IF IsRaise(get_linear_token(c.ctx)) \/ get_linear_token(c.ctx).v # JNull
           THEN get_linear_token(c.ctx)
           ELSE get_bearer_token(c.request)
    ELSE get_bearer_token(c.request)

\* C20: when credential resolution fails in a handler, the envelope's error
\* is the message of the credential error; when execute_query fails with its
\* LinearClientError, the envelope's error is that error's message
C20_ErrorVerbatim ==
  \A i \in Invocations :
    ToolDone(i) =>
      /\ IsRaise(CredentialOutcome(call[i])) =>
           ret[i] = ErrorEnvelope(CredentialOutcome(call[i]).message)
      /\ resp[i] # NoResponse
         /\ IsRaise(execute_query_response(resp[i]).o)
         /\ execute_query_response(resp[i]).o.exc = "LinearClientError" =>
           ret[i] = ErrorEnvelope(execute_query_response(resp[i]).o.message)

\* my_issues, given an access context that reports the error 'denied',
\* answered "Authentication errors: ['denied']"
C20_Witness ==
  \E i \in Invocations :
    /\ ToolDone(i)
    /\ call[i].op = "my_issues"
    /\ call[i].ctx.present
    /\ call[i].ctx.errors = JList(<<JStr(<<"denied">>)>>)
    /\ ret[i] = ErrorEnvelope(<<"Authentication errors: ", "[", "'", "denied", "'", "]">>)

\* the Authorization header of the request invocation i sent
SentAuthorization(i) == sent[i][1].headers.Authorization
\* invocation i has sent its upstream request
HasSent(i) == Len(sent[i]) > 0
\* the header that carries the credential resolved for handler call c
BearerOf(c) == <<"Bearer ">> \o CredentialOutcome(c).v.v

\* C18: under every interleaving of two invocations, the request an
\* invocation sent carries "Bearer <c>", c being the credential resolved from
\* its own access context or its own inbound header, never the other
\* invocation's differing credential; and nothing of an invocation (its
\* call, request, response, result) is left once it has been delivered
C18_OwnCredential ==
  \A i \in ConcurrentInvocations :
    /\ HasSent(i) =>
         /\ IsRet(CredentialOutcome(call[i]))
         /\ SentAuthorization(i) = BearerOf(call[i])
         /\ \A j \in ConcurrentInvocations \ {i} :
              /\ call[j].op \in Tools
              /\ IsRet(CredentialOutcome(call[j]))
              /\ CredentialOutcome(call[j]) # CredentialOutcome(call[i])
              => SentAuthorization(i) # BearerOf(call[j])
    /\ pc[i] = "idle" =>
         /\ call[i] = NoCall
         /\ sent[i] = <<>>
         /\ resp[i] = NoResponse
         /\ ret[i] = NoOutcome

\* two update_status invocations with different inbound bearer values are in
\* flight at once, each request with its own value
C18_Witness ==
  /\ pc["inv1"] = "awaiting"
  /\ pc["inv2"] = "awaiting"
  /\ call["inv1"].op = "update_status"
  /\ call["inv2"].op = "update_status"
  /\ SentAuthorization("inv1") = <<"Bearer ", "a", "B">>
  /\ SentAuthorization("inv2") = <<"Bearer ", "a">>

\* invocations i and j are finished calls of the same read-only tool with
\* the same arguments, the same credential outcome and the same upstream
\* response
SameReadOnlyCall(i, j) ==
  /\ Done(i) /\ Done(j)
  /\ call[i].op \in BrokeredTools
  /\ call[j].op = call[i].op
  /\ call[j].args = call[i].args
  /\ CredentialOutcome(call[j]) = CredentialOutcome(call[i])
  /\ resp[j] = resp[i]

Resolved(i) == pc[i] \in {"awaiting", "done"} /\ call[i].op \in Tools

\* C13: one credential strategy serves the deployment: there is a strategy
\* that every invocation in flight, of whatever tool create_mcp_server
\* registers, resolved its credential with, and no invocation used both the
\* brokered exchange and the header extraction
C13_OneStrategy ==
  \E s \in {"brokered", "header"} :
    \A i \in ConcurrentInvocations : Resolved(i) => StrategiesUsed(call[i]) \subseteq {s}

\* invocation i is a call of execute_query that has got past its credential
ExecCalled(i) == call[i].op = "execute_query" /\ pc[i] \in {"awaiting", "done"}

\* C21: execute_query given a token sends 'Bearer <token>' whatever the
\* inbound request is (none active, no header, another bearer value);
\* given no token it sends the value get_bearer_token extracts from the
\* inbound header, or sends nothing when that fails
C21_PassThrough ==
  \A i \in Invocations :
    ExecCalled(i) =>
      IF call[i].args["token"] # JNull
        THEN /\ Len(sent[i]) = 1
             /\ sent[i][1].headers.Authorization = <<"Bearer ">> \o call[i].args["token"].v
        ELSE /\ Len(sent[i]) <= 1
             /\ Len(sent[i]) = 1 =>
                  /\ call[i].request.active
                  /\ \E n \in SchemeEnds(InboundHeader(i)) :
                       sent[i][1].headers.Authorization =
                         <<"Bearer ">> \o SubSeq(InboundHeader(i), n + 1, Len(InboundHeader(i)))

\* execute_query(token="override_token") on an inbound request whose header
\* is 'Bearer aB' sent 'Bearer override_token'
C21_Witness ==
  \E i \in Invocations :
    /\ ExecCalled(i)
    /\ call[i].args["token"] = JStr(<<"override_token">>)
    /\ call[i].request = RequestWith(<<"B", "e", "a", "r", "e", "r", " ", "a", "B">>)
    /\ sent[i][1].headers.Authorization = <<"Bearer ", "override_token">>

\* how credential resolution ends in invocation i: in a handler as
\* CredentialOutcome says, in a direct call of execute_query with the token
\* given or else with get_bearer_token
ResolutionOf(i) ==
  IF call[i].op \in Tools THEN CredentialOutcome(call[i])
  ELSE IF call[i].args["token"] # JNull THEN Ret(call[i].args["token"])
  ELSE get_bearer_token(call[i].request)
\* invocation i is a handler or a direct call of execute_query that has run
Started(i) ==
  pc[i] \in {"awaiting", "done"} /\ call[i].op \in Tools \cup {"execute_query"}

\* C22: an upstream request is sent only after the credential was resolved:
\* when get_linear_token or get_bearer_token fails the invocation sends no
\* request and gets no response, and every request sent carries the
\* credential that was resolved
C22_ResolveBeforeSend ==
  \A i \in Invocations :
    Started(i) =>
      IF IsRaise(ResolutionOf(i))
        THEN sent[i] = <<>> /\ resp[i] = NoResponse /\ Done(i)
        ELSE /\ Len(sent[i]) = 1
             /\ sent[i][1].headers.Authorization = <<"Bearer ">> \o PyStr(ResolutionOf(i).v)

\* my_issues without an access context ended with the failure envelope and
\* sent nothing
C22_Witness ==
  \E i \in Invocations :
    /\ ToolDone(i)
    /\ call[i].op = "my_issues"
    /\ call[i].ctx = NoContext
    /\ IsRaise(ResolutionOf(i))
    /\ sent[i] = <<>>
    /\ IsRet(ret[i])

\* the access token the access context of invocation i holds for the
\* upstream resource
ContextToken(i) == call[i].ctx.access[<<"https://api.linear.app">>].access_token

\* C23: a request sent by a brokered handler carries the access token of the
\* invocation's access context, and never a value taken from the inbound
\* Authorization header, a context with a null access token included
C23_NoHeaderFallback ==
  \A i \in Invocations :
    call[i].op \in BrokeredTools /\ Len(sent[i]) > 0 =>
      /\ ContextToken(i) # JNull
      /\ sent[i][1].headers.Authorization = <<"Bearer ">> \o ContextToken(i).v

\* upstream answered invocation i with a status other than 200 and a JSON
\* body that has an errors array
BadStatusWithErrors(i) ==
  /\ Done(i)
  /\ resp[i].kind = "http"
  /\ resp[i].status_code # 200
  /\ resp[i].json # NotJson
  /\ resp[i].json.t = "obj"
  /\ "errors" \in DOMAIN resp[i].json.v
\* the envelope reports a domain not-found or a domain mutation failure
IsDomainFailure(env) ==
  /\ IsFailureEnvelope(env)
  /\ \/ /\ Len(env.v["error"].v) = 3
        /\ env.v["error"].v[1] \in {"Issue ", "Project ", "Team "}
        /\ env.v["error"].v[3] = " not found"
     \/ env.v["error"].v \in
          { <<"Issue creation failed">>, <<"Issue update failed">>,
            <<"Status update failed">>, <<"Project creation failed">>,
            <<"Project update failed">> }

\* C24: the status is tested before the body: a response with a status other
\* than 200 and an errors array fails with the HTTP error (status and raw
\* body), in execute_query and in the envelope of a handler; and a handler
\* reports a domain not-found or mutation failure only for a status-200
\* response without an errors field
C24_StatusFirst ==
  \A i \in Invocations :
    /\ BadStatusWithErrors(i) /\ call[i].op = "execute_query" =>
         /\ IsHttpError(ret[i])
         /\ ret[i].message =
              <<"Linear API returned HTTP ">> \o IntStr(resp[i].status_code)
              \o <<": ">> \o resp[i].text
    /\ BadStatusWithErrors(i) /\ call[i].op \in Tools =>
         /\ IsRet(ret[i])
         /\ IsFailureEnvelope(ret[i].v)
         /\ ret[i].v.v["error"].v[1] = "Linear API returned HTTP "
    /\ ToolDone(i) /\ IsRet(ret[i]) /\ IsDomainFailure(ret[i].v) =>
         /\ resp[i].kind = "http"
         /\ resp[i].status_code = 200
         /\ resp[i].json # NotJson
         /\ "errors" \notin DOMAIN resp[i].json.v

\* execute_query got status 500 with body {"errors": [{"message": "m1"}]}
\* and failed with the HTTP error
C24_Witness ==
  \E i \in Invocations :
    /\ BadStatusWithErrors(i)
    /\ call[i].op = "execute_query"
    /\ resp[i].status_code = 500
    /\ IsHttpError(ret[i])

\* C25: a value get_bearer_token returns is a non-empty string that does not
\* begin with a space, and no request is sent with an empty bearer value
C25_NonEmptyToken ==
  \A i \in Invocations :
    /\ Done(i) /\ call[i].op = "get_bearer_token" /\ IsRet(ret[i]) =>
         /\ Len(ret[i].v.v) > 0
         /\ ret[i].v.v[1] # " "
    /\ Len(sent[i]) > 0 => sent[i][1].headers.Authorization # <<"Bearer ">>

\* C26: for a status-200 response whose body is a JSON object without an
\* errors field, execute_query returns a mapping, also when the data field
\* is present with value null
C26_ReturnsMapping ==
  \A i \in Invocations :
    ExecOkObject(i) /\ "errors" \notin DOMAIN resp[i].json.v =>
      /\ IsRet(ret[i])
      /\ ret[i].v.t = "obj"

\* the GraphQL variable each argument of create_issue and update_issue is
\* sent as
VariableName(op, arg) ==
  CASE arg = "team_id" -> "teamId"
    [] arg = "issue_id" -> "id"
    [] arg = "state_id" -> "stateId"
    [] arg = "assignee_id" -> "assigneeId"
    [] arg = "project_id" -> "projectId"
    [] OTHER -> arg
RequiredArgs(op) == IF op = "create_issue" THEN {"team_id", "title"} ELSE {"issue_id"}
\* the arguments to transmit: the required ones and the optional ones given
\* a non-null value
Transmitted(c) ==
  RequiredArgs(c.op) \cup {a \in DOMAIN c.args : c.args[a] # JNull}

\* C27: the request create_issue and update_issue send has as variables
\* exactly the required arguments and the optional arguments supplied with a
\* non-null value, each with the value supplied (priority 0 and an empty
\* description included); an argument left unset is not among them
C27_OptionalArguments ==
  \A i \in Invocations :
    call[i].op \in {"create_issue", "update_issue"} /\ Len(sent[i]) > 0 =>
      LET body == sent[i][1].json.v IN
        /\ "variables" \in DOMAIN body
        /\ DOMAIN body["variables"].v =
             {VariableName(call[i].op, a) : a \in Transmitted(call[i])}
        /\ \A a \in Transmitted(call[i]) :
             body["variables"].v[VariableName(call[i].op, a)] = call[i].args[a]

\* create_issue with priority 0, an empty description and no state, assignee
\* or project sent teamId, title, description "" and priority 0 only
C27_Witness ==
  \E i \in Invocations :
    /\ call[i].op = "create_issue"
    /\ Len(sent[i]) = 1
    /\ sent[i][1].json.v["variables"] =
         JObj("teamId" :> JStr(<<"T1">>) @@ "title" :> JStr(<<"t">>)
              @@ "description" :> JStr(<<>>) @@ "priority" :> JInt(0))

\* the team_id argument is a non-empty string
HasTeamId(c) == c.args["team_id"] # JNull /\ c.args["team_id"] # JStr(<<>>)
\* the body list_projects and states are to post for call c
TeamSelectedBody(c) ==
  IF HasTeamId(c)
    THEN JObj("query" :> (IF c.op = "states" THEN JStr(<<"TEAM_STATES_QUERY">>)
                          ELSE JStr(<<"LIST_PROJECTS_BY_TEAM_QUERY">>))
              @@ "variables" :> JObj("teamId" :> c.args["team_id"]))
    ELSE JObj("query" :> (IF c.op = "states" THEN JStr(<<"ALL_TEAMS_STATES_QUERY">>)
                          ELSE JStr(<<"LIST_PROJECTS_QUERY">>)))

\* C28: list_projects and states post the team-filtered query with variables
\* {teamId: team_id} when team_id is a non-empty string, and the unfiltered
\* query without a variables field when team_id is null or the empty string;
\* with such a team_id states never answers "Team ... not found"
C28_TeamIdSelectsQuery ==
  \A i \in Invocations :
    call[i].op \in {"list_projects", "states"} =>
      /\ Len(sent[i]) > 0 => sent[i][1].json = TeamSelectedBody(call[i])
      /\ Done(i) /\ IsRet(ret[i]) /\ ~HasTeamId(call[i]) /\ IsFailureEnvelope(ret[i].v) =>
           ret[i].v.v["error"].v[1] # "Team "

\* states with the empty string as team_id posted the all-teams query
\* without variables and returned the teams
C28_Witness ==
  \E i \in Invocations :
    /\ ToolDone(i)
    /\ call[i].op = "states"
    /\ call[i].args["team_id"] = JStr(<<>>)
    /\ Len(sent[i]) = 1
    /\ sent[i][1].json = JObj("query" :> JStr(<<"ALL_TEAMS_STATES_QUERY">>))
    /\ ReturnedSuccess(i)
    /\ "teams" \in DOMAIN ret[i].v.v

\* a team as upstream documents it: an object with id and name whose states,
\* if it has any, is a connection object
WellFormedTeam(t) ==
  /\ t.t = "obj"
  /\ {"id", "name"} \subseteq DOMAIN t.v
  /\ "states" \in DOMAIN t.v => t.v["states"].t = "obj"
\* the nested states nodes of team t, the empty list when it has none
StatesOf(t) ==
  IF "states" \in DOMAIN t.v /\ "nodes" \in DOMAIN t.v["states"].v
    THEN t.v["states"].v["nodes"] ELSE EmptyList
\* the entry states returns for team t in the teams list
TeamEntry(t) ==
  JObj("id" :> t.v["id"] @@ "name" :> t.v["name"] @@ "states" :> StatesOf(t))
\* upstream answered states without team_id with a list of well-formed teams
AllTeamsAnswered(i) ==
  /\ UpstreamSucceeded(i)
  /\ call[i].op = "states"
  /\ ~HasTeamId(call[i])
  /\ At(resp[i].json, <<"data", "teams", "nodes">>).t = "list"
  /\ \A n \in 1..Len(At(resp[i].json, <<"data", "teams", "nodes">>).v) :
       WellFormedTeam(At(resp[i].json, <<"data", "teams", "nodes">>).v[n])
\* upstream answered states with a team_id with a well-formed team
OneTeamAnswered(i) ==
  /\ UpstreamSucceeded(i)
  /\ call[i].op = "states"
  /\ HasTeamId(call[i])
  /\ At(resp[i].json, <<"data", "team">>) # JNull
  /\ WellFormedTeam(At(resp[i].json, <<"data", "team">>))

\* C29: states without team_id returns {success, teams} where teams has one
\* entry {id, name, states} per upstream team, in upstream order, states
\* being the team's nested nodes or the empty list; states with team_id
\* returns {success, team: {id, name}, states: the team's nested nodes}
C29_StatesShape ==
  \A i \in Invocations :
    /\ AllTeamsAnswered(i) =>
         LET ts == At(resp[i].json, <<"data", "teams", "nodes">>).v IN
           ret[i] = Ret(JObj("success" :> JBool(TRUE)
                             @@ "teams" :> JList([n \in 1..Len(ts) |-> TeamEntry(ts[n])])))
    /\ OneTeamAnswered(i) =>
         LET t == At(resp[i].json, <<"data", "team">>) IN
           ret[i] = Ret(JObj("success" :> JBool(TRUE)
                             @@ "team" :> JObj("id" :> t.v["id"] @@ "name" :> t.v["name"])
                             @@ "states" :> StatesOf(t)))

\* states() was answered with teams Eng (two states) and Ops (no states
\* field) and returned both, in that order, Ops with an empty states list
C29_Witness ==
  \E i \in Invocations :
    /\ AllTeamsAnswered(i)
    /\ Len(At(resp[i].json, <<"data", "teams", "nodes">>).v) = 2
    /\ IsRet(ret[i])
    /\ ret[i].v.v["teams"].v[1] =
         JObj("id" :> JStr(<<"T1">>) @@ "name" :> JStr(<<"Eng">>)
              @@ "states" :> JList(<<Node1, Node2>>))
    /\ ret[i].v.v["teams"].v[2] =
         JObj("id" :> JStr(<<"T2">>) @@ "name" :> JStr(<<"Ops">>) @@ "states" :> EmptyList)

\* C30: sanitize_variables leaves the mapping it is given as it was, and
\* applying it to its own result gives that result again; execute_query
\* leaves the variables mapping of its caller as it was
C30_PureIdempotent ==
  \A i \in Invocations :
    /\ Done(i) /\ call[i].op = "sanitize_variables" =>
         /\ call[i].after = call[i].args["variables"]
         /\ IsRet(ret[i])
         /\ sanitize_variables(ret[i].v) = ret[i].v
    /\ ExecCalled(i) => call[i].after = call[i].args["variables"]

\* sanitize_variables({"a": None, "b": ""}) returned {"b": ""} and the
\* argument still holds both entries
C30_Witness ==
  \E i \in Invocations :
    /\ Done(i)
    /\ call[i].op = "sanitize_variables"
    /\ call[i].args["variables"] = JObj("a" :> JNull @@ "b" :> JStr(<<>>))
    /\ call[i].after = JObj("a" :> JNull @@ "b" :> JStr(<<>>))
    /\ ret[i] = Ret(JObj("b" :> JStr(<<>>)))

=============================================================================
